---- MODULE Spec2Model ----
(***************************************************************************)
(* Model of the NEAR token factory contract                                *)
(* (near-token-factory/src/lib.rs): the contract record, its entry points  *)
(* new, set_token_binary, create_token, on_deposit and on_withdraw, the    *)
(* promises they dispatch, and the execution of those promises on the      *)
(* destination ledger.                                                     *)
(*                                                                         *)
(* Account ids and other strings are sequences of one-character strings;   *)
(* addresses and binaries are sequences of bytes (0..255).                 *)
(***************************************************************************)
EXTENDS Integers, Sequences, FiniteSets, TLC

(***************************************************************************)
(* Bounds of the model.                                                    *)
(***************************************************************************)
\* Number of entry-point invocations explored after initialization.
MaxCalls == 3

(***************************************************************************)
(* Program constants.                                                      *)
(***************************************************************************)
\* lib.rs:9, in units of 10^18 yoctoNEAR (1_000_000_000_000_000_000).
TOKEN_STORAGE_DEPOSIT_COST == 1
\* lib.rs:10, in units of 10^12 gas (Gas(5_000_000_000_000)).
TOKEN_DEPLOYMENT_COST == 5
\* lib.rs:11, in units of 10^12 gas (Gas(2_000_000_000_000)).
DEPOSIT_COST == 2

ERR_ONLY_LOCKER == "ERR_ONLY_LOCKER"
ERR_INVALID_ACCOUNT == "ERR_INVALID_ACCOUNT"
ERR_BINARY_NOT_AVAILABLE == "ERR_BINARY_NOT_AVAILABLE"
\* Panics that carry no message constant of the contract.
ERR_PRIVATE == "Method is private"
PANIC_SLICE == "range end index 40 out of range for slice"
PANIC_UNWRAP == "called Result::unwrap() on an Err value"
PANIC_NUMBER_OUT_OF_RANGE ==
  "called Result::unwrap() on an Err value: Error(number out of range)"

WITHDRAW_SELECTOR == <<217, 202, 237, 18>>

\* Length of an address in bytes ([0u8; 20]) and of its hex form ([0..40]).
ADDRESS_LEN == 20
ADDRESS_HEX_LEN == 40
\* The account id length limit that new() checks against.
MAX_ACCOUNT_LEN == 63

(***************************************************************************)
(* Strings and bytes.                                                      *)
(***************************************************************************)
HexDigits == <<"0","1","2","3","4","5","6","7","8","9","a","b","c","d","e","f">>
HexUpper == <<"0","1","2","3","4","5","6","7","8","9","A","B","C","D","E","F">>

\* Display of an Address: the 20 bytes as 40 lower-case hex characters.
AddressDisplay(address) ==
  [i \in 1..(2 * Len(address)) |->
     IF i % 2 = 1 THEN HexDigits[(address[(i + 1) \div 2] \div 16) + 1]
                  ELSE HexDigits[(address[i \div 2] % 16) + 1]]

\* hex::val: the value of one hex character, -1 for an invalid character.
HexVal(c) ==
  IF \E i \in 1..16 : HexDigits[i] = c
    THEN (CHOOSE i \in 1..16 : HexDigits[i] = c) - 1
    ELSE IF \E i \in 1..16 : HexUpper[i] = c
      THEN (CHOOSE i \in 1..16 : HexUpper[i] = c) - 1
      ELSE -1

\* hex::decode_to_slice(data, out) with out of out_len bytes.
hex_decode_to_slice(data, out_len) ==
  IF Len(data) % 2 # 0 \/ Len(data) \div 2 # out_len
    THEN [ok |-> FALSE, bytes |-> <<>>]
    ELSE IF \E i \in 1..Len(data) : HexVal(data[i]) < 0
      THEN [ok |-> FALSE, bytes |-> <<>>]
      ELSE [ok |-> TRUE,
            bytes |-> [i \in 1..out_len |->
                         16 * HexVal(data[2 * i - 1]) + HexVal(data[2 * i])]]

\* A u128 is kept as 8 limbs of 16 bits, most significant first, so that
\* every value below 2^128 is representable.
\* The u128 of a small natural number (below 2^31).
u128_from(n) == <<0, 0, 0, 0, 0, 0, n \div 65536, n % 65536>>

\* Quotient and remainder of a u128 by 256, by long division over the limbs.
u128_div256(n) ==
  << n[1] \div 256,
     (n[1] % 256) * 256 + n[2] \div 256,
     (n[2] % 256) * 256 + n[3] \div 256,
     (n[3] % 256) * 256 + n[4] \div 256,
     (n[4] % 256) * 256 + n[5] \div 256,
     (n[5] % 256) * 256 + n[6] \div 256,
     (n[6] % 256) * 256 + n[7] \div 256,
     (n[7] % 256) * 256 + n[8] \div 256 >>
u128_mod256(n) == n[8] % 256

\* u64::try_from(n).is_ok(): n is below 2^64.
u128_fits_u64(n) == n[1] = 0 /\ n[2] = 0 /\ n[3] = 0 /\ n[4] = 0

\* The sum of two u128 modulo 2^128, limb by limb with the carries.
u128_add(a, b) ==
  LET s8 == a[8] + b[8]
      s7 == a[7] + b[7] + s8 \div 65536
      s6 == a[6] + b[6] + s7 \div 65536
      s5 == a[5] + b[5] + s6 \div 65536
      s4 == a[4] + b[4] + s5 \div 65536
      s3 == a[3] + b[3] + s4 \div 65536
      s2 == a[2] + b[2] + s3 \div 65536
      s1 == a[1] + b[1] + s2 \div 65536
  IN  << s1 % 65536, s2 % 65536, s3 % 65536, s4 % 65536,
         s5 % 65536, s6 % 65536, s7 % 65536, s8 % 65536 >>

\* u128::to_be_bytes: the len low base-256 digits of n, most significant
\* first (len is 16 for a u128).
RECURSIVE to_be_bytes(_, _)
to_be_bytes(n, len) ==
  IF len = 0 THEN <<>>
  ELSE Append(to_be_bytes(u128_div256(n), len - 1), u128_mod256(n))

Zeros(n) == [i \in 1..n |-> 0]

\* "{}.{}" of two strings.
FormatDot(a, b) == a \o <<".">> \o b

\* str::parse::<AccountId>(): the length rule of account id validation
\* (an account id has between 2 and 64 characters).
account_id_parse(s) == [ok |-> Len(s) >= 2 /\ Len(s) <= 64, id |-> s]

(***************************************************************************)
(* Inputs explored by the model.                                           *)
(***************************************************************************)
\* Token addresses on the host ledger.
TokenA == [i \in 1..ADDRESS_LEN |-> i]
TokenB == [i \in 1..ADDRESS_LEN |-> 171]
TokenAddresses == {TokenA, TokenB}
\* The locker's address on the host ledger, and a withdrawal receiver there.
LockerAddress == [i \in 1..ADDRESS_LEN |-> 204]
HostReceiver == [i \in 1..ADDRESS_LEN |-> 17]
HostReceivers == {HostReceiver}

AuroraId == <<"a","u","r","o","r","a">>
FactoryId == <<"f","a","c","t","o","r","y">>
\* A factory identity of 23 characters: its sub-accounts have 23 + 1 + 40 =
\* 64 characters, the longest valid account id, above the 63 of new().
LongFactoryId == [i \in 1..23 |-> "x"]
FactoryIds == {FactoryId, LongFactoryId}

Alice == <<"a","l","i","c","e">>
ReceiverIds == {Alice}
\* Amounts (u128): two small ones and 2^64, the first above u64::MAX.
Pow64 == <<0, 0, 0, 1, 0, 0, 0, 0>>
Amounts == {u128_from(250), u128_from(500), Pow64}

Wasm1 == <<0, 97, 115, 109, 1>>
Wasm2 == <<0, 97, 115, 109, 2>>
Binaries == {Wasm1, Wasm2}

\* Callers (predecessor account ids).
LockerRep == FormatDot(AddressDisplay(LockerAddress), AuroraId)
TokenAccount(a) == FormatDot(AddressDisplay(a), FactoryId)
\* An account of another namespace whose name starts with TokenA's hex form.
Impostor == FormatDot(AddressDisplay(TokenA), <<"e","v","i","l">>)
\* An account of 44 characters whose first 40 are not all hex digits.
BadHex == FormatDot(SubSeq(AddressDisplay(TokenA), 1, 38) \o <<"-", "z">>,
                    <<"b","a","d">>)
Callers == {LockerRep, FactoryId, TokenAccount(TokenA), Impostor, BadHex, Alice}

(***************************************************************************)
(* State.                                                                  *)
(***************************************************************************)
VARIABLES
  current_account_id,   \* env::current_account_id(): the factory's identity
  initialized,          \* whether the contract state exists (PanicOnDefault)
  aurora,               \* Contract.aurora
  locker,               \* Contract.locker
  token_binary,         \* Contract.token_binary: {} is None, {b} is Some(b)
  token_binary_version, \* Contract.token_binary_version
  tokens,               \* Contract.tokens: account id -> version
  promises,             \* promises dispatched so far, with their outcome
  accounts,             \* token sub-accounts that exist on the ledger
  last,                 \* the most recent entry-point invocation
  ncalls,               \* number of invocations since initialization
  eval                  \* a pure function under evaluation: input and output

vars == <<current_account_id, initialized, aurora, locker, token_binary,
          token_binary_version, tokens, promises, accounts, last, ncalls,
          eval>>

EmptyMap == [x \in {} |-> 0]

\* Arguments of an invocation; a field the entry point does not take is
\* empty (<<>>, or 0 for the amount).
Args(token, receiver_id, amount, binary) ==
  [token |-> token, receiver_id |-> receiver_id, amount |-> amount,
   binary |-> binary]

\* last: the entry point, its caller, its arguments, its result ("ok" or the
\* panic message) and the index in promises of the promise it dispatched
\* (0 for none).
NoCall == [op |-> "none", caller |-> <<>>, args |-> Args(<<>>, <<>>, 0, <<>>),
           result |-> "", promise |-> 0]

\* No pure function is under evaluation while the contract runs.
NoEval == [fn |-> "none", input |-> <<>>, done |-> FALSE, output |-> <<>>]

Init ==
  /\ current_account_id \in FactoryIds
  /\ initialized = FALSE
  /\ aurora = <<>>
  /\ locker = <<>>
  /\ token_binary = {}
  /\ token_binary_version = 0
  /\ tokens = EmptyMap
  /\ promises = <<>>
  /\ accounts = EmptyMap
  /\ last = NoCall
  /\ ncalls = 0
  /\ eval = NoEval

(***************************************************************************)
(* Helpers of the contract.                                                *)
(***************************************************************************)
\* The outcome of an entry point: a panic discards every state change of
\* the invocation; a return commits the contract fields and the promise.
Panic(msg) ==
  [ok |-> FALSE, result |-> msg, tokens |-> tokens,
   token_binary |-> token_binary,
   token_binary_version |-> token_binary_version, dispatched |-> <<>>]

Return(tokens_, binary_, version_, dispatched_) ==
  [ok |-> TRUE, result |-> "ok", tokens |-> tokens_, token_binary |-> binary_,
   token_binary_version |-> version_, dispatched |-> dispatched_]

\* Promise actions.
CreateAccount == [kind |-> "CreateAccount"]
DeployContract(code) == [kind |-> "DeployContract", code |-> code]
FunctionCall(method, args, deposit, gas) ==
  [kind |-> "FunctionCall", method |-> method, args |-> args,
   deposit |-> deposit, gas |-> gas]
NewPromise(receiver, actions) ==
  [receiver |-> receiver, actions |-> actions, status |-> "pending"]

\* Contract::locker_account_id: "{locker}.{aurora}" parsed as an account id.
locker_account_id == account_id_parse(FormatDot(AddressDisplay(locker), aurora))

\* assert_locker with the require! left out.
assert_locker_skipped(caller) == ""

\* Contract::assert_locker: "" when the require! passes for this caller,
\* the panic message otherwise.
assert_locker(caller) ==
  IF ~locker_account_id.ok THEN PANIC_UNWRAP
  ELSE IF caller = locker_account_id.id THEN "" ELSE ERR_ONLY_LOCKER

\* assert_self with the check left out.
assert_self_skipped(caller) == ""

\* near_sdk::assert_self: "" when predecessor_account_id equals
\* current_account_id, the panic message otherwise.
assert_self(caller) == IF caller = current_account_id THEN "" ELSE ERR_PRIVATE

\* get_token_binary that falls back to an empty binary instead of panicking.
get_token_binary_or_default ==
  [ok |-> TRUE,
   binary |-> IF token_binary = {} THEN <<>>
              ELSE CHOOSE b \in token_binary : TRUE]

\* Contract::get_token_binary: the binary, or a panic when none is set.
get_token_binary ==
  IF token_binary = {}
    THEN [ok |-> FALSE, binary |-> <<>>]
    ELSE [ok |-> TRUE, binary |-> CHOOSE b \in token_binary : TRUE]

\* serde_json::json! of a u128 (to_value(&amount).unwrap()): the value is a
\* JSON number when it fits a u64, and the unwrap panics with "number out
\* of range" otherwise.
json_u128(amount) ==
  [ok |-> u128_fits_u64(amount), err |-> PANIC_NUMBER_OUT_OF_RANGE,
   value |-> amount]

\* Hex digits of the bytes without zero padding ("{:x}" of each byte).
RECURSIVE UnpaddedHex(_)
UnpaddedHex(bytes) ==
  IF bytes = <<>> THEN <<>>
  ELSE (IF Head(bytes) < 16 THEN <<HexDigits[Head(bytes) + 1]>>
        ELSE <<HexDigits[(Head(bytes) \div 16) + 1],
               HexDigits[(Head(bytes) % 16) + 1]>>)
       \o UnpaddedHex(Tail(bytes))

\* account_id_from_token_address that formats the bytes without padding.
account_id_from_token_address_unpadded(address) ==
  account_id_parse(FormatDot(UnpaddedHex(address), current_account_id))

\* account_id_from_token_address: "{address}.{current_account_id}".
account_id_from_token_address(address) ==
  account_id_parse(FormatDot(AddressDisplay(address), current_account_id))

\* address_from_token_account_id that slices [1..41] instead of [0..40].
address_from_token_account_id_shifted(account_id) ==
  IF Len(account_id) < ADDRESS_HEX_LEN + 1
    THEN [ok |-> FALSE, err |-> PANIC_SLICE, address |-> <<>>]
    ELSE LET r == hex_decode_to_slice(
                    SubSeq(account_id, 2, ADDRESS_HEX_LEN + 1), ADDRESS_LEN)
         IN  IF r.ok THEN [ok |-> TRUE, err |-> "", address |-> r.bytes]
                     ELSE [ok |-> FALSE, err |-> PANIC_UNWRAP, address |-> <<>>]

\* address_from_token_account_id that ignores the result of the decoding,
\* keeping the zeroed buffer.
address_from_token_account_id_unchecked(account_id) ==
  IF Len(account_id) < ADDRESS_HEX_LEN
    THEN [ok |-> FALSE, err |-> PANIC_SLICE, address |-> <<>>]
    ELSE LET r == hex_decode_to_slice(SubSeq(account_id, 1, ADDRESS_HEX_LEN),
                                      ADDRESS_LEN)
         IN  [ok |-> TRUE, err |-> "",
              address |-> IF r.ok THEN r.bytes ELSE Zeros(ADDRESS_LEN)]

\* address_from_token_account_id: hex-decodes the first 40 characters.
address_from_token_account_id(account_id) ==
  IF Len(account_id) < ADDRESS_HEX_LEN
    THEN [ok |-> FALSE, err |-> PANIC_SLICE, address |-> <<>>]
    ELSE LET r == hex_decode_to_slice(SubSeq(account_id, 1, ADDRESS_HEX_LEN),
                                      ADDRESS_LEN)
         IN  IF r.ok THEN [ok |-> TRUE, err |-> "", address |-> r.bytes]
                     ELSE [ok |-> FALSE, err |-> PANIC_UNWRAP, address |-> <<>>]

\* abi_encode_withdraw with the amount left-aligned in its 32-byte word.
abi_encode_withdraw_left_aligned(token_id, receiver_id, amount) ==
  WITHDRAW_SELECTOR \o Zeros(12) \o token_id
    \o Zeros(12) \o receiver_id
    \o to_be_bytes(amount, 16) \o Zeros(16)

\* abi_encode_withdraw: selector and three 32-byte words, 100 bytes; the
\* amount is a u128.
abi_encode_withdraw(token_id, receiver_id, amount) ==
  WITHDRAW_SELECTOR \o Zeros(12) \o token_id
    \o Zeros(12) \o receiver_id
    \o Zeros(16) \o to_be_bytes(amount, 16)

\* aurora_sdk::aurora::call_args: the engine call to `address` with `input`.
call_args(address, input) == [contract |-> address, input |-> input]

\* A registry check that never finds a token new.
tokens_get_is_none_never(id) == FALSE

\* A registry check that also treats a token whose sub-account does not
\* exist on the ledger as new.
tokens_get_is_none_or_undeployed(id) ==
  id \notin DOMAIN tokens \/ id \notin DOMAIN accounts

\* self.tokens.get(&id).is_none()
tokens_get_is_none(id) == id \notin DOMAIN tokens

\* tokens.insert that stamps the version after the current one.
tokens_insert_next_version(id, version) ==
  [x \in DOMAIN tokens \cup {id} |->
     IF x = id THEN version + 1 ELSE tokens[x]]

\* tokens.insert that starts a new map, losing the other entries.
tokens_insert_replace(id, version) == [x \in {id} |-> version]

\* self.tokens.insert(&id, &version)
tokens_insert(id, version) ==
  [x \in DOMAIN tokens \cup {id} |-> IF x = id THEN version ELSE tokens[x]]

(***************************************************************************)
(* Entry points, as functions from the call to its outcome.                *)
(***************************************************************************)
\* Contract::new: the require! on the factory's own identity.
new(aurora_, locker_) ==
  IF Len(current_account_id) + 1 + ADDRESS_HEX_LEN <= MAX_ACCOUNT_LEN
    THEN "ok" ELSE ERR_INVALID_ACCOUNT

\* set_token_binary that replaces the binary without counting the version.
set_token_binary_uncounted(caller, binary) ==
  IF assert_self(caller) # "" THEN Panic(assert_self(caller))
  ELSE Return(tokens, {binary}, token_binary_version, <<>>)

\* Contract::set_token_binary
set_token_binary(caller, binary) ==
  IF assert_self(caller) # "" THEN Panic(assert_self(caller))
  ELSE Return(tokens, {binary}, token_binary_version + 1, <<>>)

\* Contract::create_token
create_token(caller, token_address) ==
  IF assert_locker(caller) # "" THEN Panic(assert_locker(caller))
  ELSE
    LET token_account_id == account_id_from_token_address(token_address)
        binary == get_token_binary
    IN  IF ~token_account_id.ok THEN Panic(PANIC_UNWRAP)
        ELSE IF ~binary.ok THEN Panic(ERR_BINARY_NOT_AVAILABLE)
        ELSE Return(tokens, token_binary, token_binary_version,
               <<NewPromise(token_account_id.id,
                   <<CreateAccount,
                     DeployContract(binary.binary),
                     FunctionCall("new", <<>>, TOKEN_STORAGE_DEPOSIT_COST,
                                  TOKEN_DEPLOYMENT_COST)>>)>>)

\* Contract::on_deposit
on_deposit(caller, token, receiver_id, amount) ==
  IF assert_locker(caller) # "" THEN Panic(assert_locker(caller))
  ELSE
    LET token_account_id == account_id_from_token_address(token)
        binary == get_token_binary
    IN  IF ~token_account_id.ok THEN Panic(PANIC_UNWRAP)
        ELSE IF tokens_get_is_none(token_account_id.id)
          THEN IF ~binary.ok THEN Panic(ERR_BINARY_NOT_AVAILABLE)
               ELSE IF ~json_u128(amount).ok
                 THEN Panic(json_u128(amount).err)
               ELSE Return(tokens_insert(token_account_id.id,
                                         token_binary_version),
                      token_binary, token_binary_version,
                      <<NewPromise(token_account_id.id,
                          <<CreateAccount,
                            DeployContract(binary.binary),
                            FunctionCall("new", <<>>,
                                         TOKEN_STORAGE_DEPOSIT_COST,
                                         TOKEN_DEPLOYMENT_COST),
                            FunctionCall("deposit",
                                         [receiver_id |-> receiver_id,
                                          amount |-> json_u128(amount).value],
                                         0, DEPOSIT_COST)>>)>>)
          ELSE Return(tokens, token_binary, token_binary_version,
                 <<NewPromise(token_account_id.id,
                     <<FunctionCall("deposit",
                                    [receiver_id |-> receiver_id,
                                     amount |-> amount],
                                    0, DEPOSIT_COST)>>)>>)

\* on_withdraw that also records its caller in the Registry.
on_withdraw_registering(caller, receiver_id, amount) ==
  LET token_id == address_from_token_account_id(caller)
  IN  IF ~token_id.ok THEN Panic(token_id.err)
      ELSE Return(tokens_insert(caller, token_binary_version),
             token_binary, token_binary_version,
             <<NewPromise(aurora,
                 <<FunctionCall("call",
                     call_args(token_id.address,
                               abi_encode_withdraw(token_id.address,
                                                   receiver_id,
                                                   amount)),
                     0, 0)>>)>>)

\* on_withdraw that names the token by its receiver_id argument once the
\* caller's identity has decoded.
on_withdraw_token_from_argument(caller, receiver_id, amount) ==
  LET token_id == address_from_token_account_id(caller)
  IN  IF ~token_id.ok THEN Panic(token_id.err)
      ELSE Return(tokens, token_binary, token_binary_version,
             <<NewPromise(aurora,
                 <<FunctionCall("call",
                     call_args(receiver_id,
                               abi_encode_withdraw(receiver_id, receiver_id,
                                                   amount)),
                     0, 0)>>)>>)

\* Contract::on_withdraw
on_withdraw(caller, receiver_id, amount) ==
  LET token_id == address_from_token_account_id(caller)
  IN  IF ~token_id.ok THEN Panic(token_id.err)
      ELSE Return(tokens, token_binary, token_binary_version,
             <<NewPromise(aurora,
                 <<FunctionCall("call",
                     call_args(token_id.address,
                               abi_encode_withdraw(token_id.address,
                                                   receiver_id,
                                                   amount)),
                     0, 0)>>)>>)

(***************************************************************************)
(* Actions: one invocation of an entry point runs to completion.           *)
(***************************************************************************)
\* The runtime commits the outcome of an invocation of an initialized
\* contract: the contract fields and the dispatched promise.
Invoke(op, caller, args, out) ==
  /\ initialized
  /\ ncalls < MaxCalls
  /\ ncalls' = ncalls + 1
  /\ tokens' = out.tokens
  /\ token_binary' = out.token_binary
  /\ token_binary_version' = out.token_binary_version
  /\ promises' = promises \o out.dispatched
  /\ last' = [op |-> op, caller |-> caller, args |-> args,
              result |-> out.result,
              promise |-> IF out.dispatched = <<>> THEN 0
                          ELSE Len(promises) + 1]
  /\ UNCHANGED <<current_account_id, initialized, aurora, locker, accounts,
                 eval>>

New ==
  /\ ~initialized
  /\ \E aurora_ \in {AuroraId}, locker_ \in {LockerAddress} :
       LET r == new(aurora_, locker_) IN
       /\ last' = [NoCall EXCEPT !.op = "new", !.caller = current_account_id,
                                 !.result = r]
       /\ IF r = "ok"
            THEN /\ initialized' = TRUE
                 /\ aurora' = aurora_
                 /\ locker' = locker_
                 /\ token_binary' = {}
                 /\ token_binary_version' = 0
                 /\ tokens' = EmptyMap
            ELSE UNCHANGED <<initialized, aurora, locker, token_binary,
                             token_binary_version, tokens>>
  /\ UNCHANGED <<current_account_id, promises, accounts, ncalls, eval>>

SetTokenBinary ==
  \E caller \in Callers, binary \in Binaries :
    Invoke("set_token_binary", caller, Args(<<>>, <<>>, 0, binary),
           set_token_binary(caller, binary))

CreateToken ==
  \E caller \in Callers, token_address \in TokenAddresses :
    Invoke("create_token", caller, Args(token_address, <<>>, 0, <<>>),
           create_token(caller, token_address))

OnDeposit ==
  \E caller \in Callers, token \in TokenAddresses,
     receiver_id \in ReceiverIds, amount \in Amounts :
    Invoke("on_deposit", caller, Args(token, receiver_id, amount, <<>>),
           on_deposit(caller, token, receiver_id, amount))

OnWithdraw ==
  \E caller \in Callers, receiver_id \in HostReceivers, amount \in Amounts :
    Invoke("on_withdraw", caller, Args(<<>>, receiver_id, amount, <<>>),
           on_withdraw(caller, receiver_id, amount))

(***************************************************************************)
(* The execution environment: promises dispatched to token sub-accounts    *)
(* run later, each batch of actions atomically, and may fail.  The engine  *)
(* call of on_withdraw runs on the host ledger, outside this model.        *)
(***************************************************************************)
Credit(balances, receiver_id, amount) ==
  [r \in DOMAIN balances \cup {receiver_id} |->
     IF r = receiver_id
       THEN u128_add(IF r \in DOMAIN balances THEN balances[r]
                     ELSE u128_from(0), amount)
       ELSE balances[r]]

ApplyAction(acct, a) ==
  IF a.kind = "CreateAccount"
    THEN [code |-> <<>>, initialized |-> FALSE, balances |-> EmptyMap]
  ELSE IF a.kind = "DeployContract"
    THEN [acct EXCEPT !.code = a.code]
  ELSE IF a.method = "new"
    THEN [acct EXCEPT !.initialized = TRUE]
  ELSE [acct EXCEPT !.balances =
          Credit(acct.balances, a.args.receiver_id, a.args.amount)]

RECURSIVE RunActions(_, _)
RunActions(acct, actions) ==
  IF actions = <<>> THEN acct
  ELSE RunActions(ApplyAction(acct, Head(actions)), Tail(actions))

\* A batch that creates the account fails when the account exists; a call
\* to a token account fails when there is no initialized contract there.
CanSucceed(p) ==
  IF Head(p.actions).kind = "CreateAccount"
    THEN p.receiver \notin DOMAIN accounts
    ELSE p.receiver \in DOMAIN accounts /\ accounts[p.receiver].initialized

ExecuteOk ==
  \E i \in 1..Len(promises) :
    LET p == promises[i] IN
    /\ p.status = "pending"
    /\ p.receiver # aurora
    /\ CanSucceed(p)
    /\ promises' = [promises EXCEPT ![i].status = "ok"]
    /\ accounts' =
         [x \in DOMAIN accounts \cup {p.receiver} |->
                 IF x = p.receiver
                   THEN RunActions(IF x \in DOMAIN accounts THEN accounts[x]
                                   ELSE <<>>, p.actions)
                   ELSE accounts[x]]
    /\ UNCHANGED <<current_account_id, initialized, aurora, locker,
                   token_binary, token_binary_version, tokens, last, ncalls,
                   eval>>

ExecuteFail ==
  \E i \in 1..Len(promises) :
    /\ promises[i].status = "pending"
    /\ promises[i].receiver # aurora
    /\ promises' = [promises EXCEPT ![i].status = "failed"]
    /\ UNCHANGED <<current_account_id, initialized, aurora, locker,
                   token_binary, token_binary_version, tokens, accounts,
                   last, ncalls, eval>>

Next ==
  \/ New
  \/ SetTokenBinary
  \/ CreateToken
  \/ OnDeposit
  \/ OnWithdraw
  \/ ExecuteOk
  \/ ExecuteFail

Spec == Init /\ [][Next]_vars

(***************************************************************************)
(* Vocabulary of the properties.                                           *)
(***************************************************************************)
\* A step that is one invocation of an entry point.
IsCall == ncalls' = ncalls + 1

\* The sub-account of a token address under the factory.
SubAccount(token) == FormatDot(AddressDisplay(token), current_account_id)

\* Shapes of dispatched promises.
IsDeployBatch(p) == Head(p.actions).kind = "CreateAccount"
IsDepositDeploy(p) ==
  /\ Len(p.actions) = 4
  /\ p.actions[1].kind = "CreateAccount"
  /\ p.actions[2].kind = "DeployContract"
  /\ p.actions[3].kind = "FunctionCall" /\ p.actions[3].method = "new"
  /\ p.actions[4].kind = "FunctionCall" /\ p.actions[4].method = "deposit"
IsDirectCredit(p) ==
  /\ Len(p.actions) = 1
  /\ p.actions[1].kind = "FunctionCall" /\ p.actions[1].method = "deposit"
IsEngineCall(p) ==
  /\ Len(p.actions) = 1
  /\ p.actions[1].kind = "FunctionCall" /\ p.actions[1].method = "call"
HasDeposit(p) ==
  /\ p.actions[Len(p.actions)].kind = "FunctionCall"
  /\ p.actions[Len(p.actions)].method = "deposit"

\* The state an invocation can commit to, and the state a failed one keeps.
NothingCommitted ==
  /\ UNCHANGED <<aurora, locker, token_binary, token_binary_version, tokens>>
  /\ UNCHANGED <<promises, accounts>>
  /\ last'.promise = 0

(***************************************************************************)
(* C1: two on_deposit calls by the locker in immediate succession for a    *)
(* token without a Registry entry, with a binary set: the first registers  *)
(* the token and dispatches the create+deploy+init+credit batch, the       *)
(* second leaves the Registry alone and dispatches only a direct credit,   *)
(* whether or not the first batch has run; one batch for the token in all. *)
(* The first deposit does not do so for an amount of 2^64 or more: the     *)
(* JSON arguments of the batched deposit cannot be built and the call      *)
(* panics, so the token is neither registered nor deployed.                *)
(***************************************************************************)
C1_FirstDeposit ==
  (/\ IsCall
   /\ last'.op = "on_deposit" /\ last'.caller = LockerRep
   /\ token_binary # {}
   /\ SubAccount(last'.args.token) \notin DOMAIN tokens)
  => /\ last'.result = "ok"
     /\ DOMAIN tokens' = DOMAIN tokens \cup {SubAccount(last'.args.token)}
     /\ promises' = Append(promises, promises'[last'.promise])
     /\ IsDepositDeploy(promises'[last'.promise])
     /\ promises'[last'.promise].receiver = SubAccount(last'.args.token)

C1_SecondDeposit ==
  (/\ last.op = "on_deposit" /\ last.result = "ok"
   /\ IsDepositDeploy(promises[last.promise])
   /\ IsCall
   /\ last'.op = "on_deposit" /\ last'.caller = LockerRep
   /\ last'.args.token = last.args.token)
  => /\ last'.result = "ok"
     /\ tokens' = tokens
     /\ SubAccount(last.args.token) \in DOMAIN tokens'
     /\ promises' = Append(promises, promises'[last'.promise])
     /\ IsDirectCredit(promises'[last'.promise])
     /\ promises'[last'.promise].receiver = SubAccount(last.args.token)
     /\ Cardinality({i \in 1..Len(promises') :
                       /\ IsDeployBatch(promises'[i])
                       /\ HasDeposit(promises'[i])
                       /\ promises'[i].receiver = SubAccount(last.args.token)})
          = 1

C1_DepositTwiceDeploysOnce == [][C1_FirstDeposit /\ C1_SecondDeposit]_vars

(***************************************************************************)
(* C2: at most one create-account+deploy batch is ever dispatched for a    *)
(* token's sub-account, over any calls of create_token and on_deposit.     *)
(***************************************************************************)
C2_AtMostOneDeployPerToken ==
  \A i, j \in 1..Len(promises) :
    (/\ i # j
     /\ IsDeployBatch(promises[i])
     /\ IsDeployBatch(promises[j]))
    => promises[i].receiver # promises[j].receiver

(***************************************************************************)
(* C3: no accepted deposit is lost: once the promises of the accepted      *)
(* on_deposit calls for a token and receiver have run, the receiver's      *)
(* balance on the token's sub-account is the sum of the amounts.           *)
(***************************************************************************)
RECURSIVE SumFinishedDeposits(_, _, _)
SumFinishedDeposits(account, receiver_id, k) ==
  IF k = 0 THEN u128_from(0)
  ELSE u128_add(SumFinishedDeposits(account, receiver_id, k - 1),
        IF /\ promises[k].receiver = account
           /\ promises[k].receiver # aurora
           /\ HasDeposit(promises[k])
           /\ promises[k].status # "pending"
           /\ promises[k].actions[Len(promises[k].actions)].args.receiver_id
                = receiver_id
         THEN promises[k].actions[Len(promises[k].actions)].args.amount
         ELSE u128_from(0))

Balance(account, receiver_id) ==
  IF account \in DOMAIN accounts
       /\ receiver_id \in DOMAIN accounts[account].balances
    THEN accounts[account].balances[receiver_id]
    ELSE u128_from(0)

C3_NoDepositLost ==
  \A token \in TokenAddresses, receiver_id \in ReceiverIds :
    Balance(SubAccount(token), receiver_id)
      = SumFinishedDeposits(SubAccount(token), receiver_id, Len(promises))

(***************************************************************************)
(* C4: on_deposit by a caller other than the locker's representative       *)
(* fails with ERR_ONLY_LOCKER, changes no contract state and dispatches    *)
(* nothing.                                                                *)
(***************************************************************************)
C4_DepositUnauthorized ==
  [][(IsCall /\ last'.op = "on_deposit" /\ last'.caller # LockerRep)
     => (last'.result = ERR_ONLY_LOCKER /\ NothingCommitted)]_vars

\* A stranger's deposit was rejected in a state where the locker's would
\* have registered a token.
C4_Witness ==
  /\ last.op = "on_deposit" /\ last.caller = Impostor
  /\ last.result = ERR_ONLY_LOCKER
  /\ token_binary # {}
  /\ SubAccount(last.args.token) \notin DOMAIN tokens

(***************************************************************************)
(* C5 as stated: set_token_binary, create_token and on_deposit succeed     *)
(* only for the locker's representative, and every change of the binary,   *)
(* the version counter or the Registry comes from a call by it.            *)
(***************************************************************************)
C5_OnlyLockerMutates ==
  [][/\ (/\ IsCall
         /\ last'.op \in {"set_token_binary", "create_token", "on_deposit"}
         /\ last'.result = "ok")
        => last'.caller = LockerRep
     /\ (/\ initialized
         /\ \/ token_binary' # token_binary
            \/ token_binary_version' # token_binary_version
            \/ tokens' # tokens)
        => (IsCall /\ last'.caller = LockerRep)]_vars

(***************************************************************************)
(* C5 amended: create_token and on_deposit succeed only for the locker's   *)
(* representative and set_token_binary only for the factory's own account; *)
(* the Registry changes only in an on_deposit call by the locker, the      *)
(* binary and the version counter only in a set_token_binary call by the   *)
(* factory's own account.                                                  *)
(***************************************************************************)
C5_GatedMutations ==
  [][/\ (/\ IsCall
         /\ last'.op \in {"create_token", "on_deposit"}
         /\ last'.result = "ok")
        => last'.caller = LockerRep
     /\ (IsCall /\ last'.op = "set_token_binary" /\ last'.result = "ok")
        => last'.caller = current_account_id
     /\ (initialized /\ tokens' # tokens)
        => (IsCall /\ last'.op = "on_deposit" /\ last'.caller = LockerRep)
     /\ (/\ initialized
         /\ \/ token_binary' # token_binary
            \/ token_binary_version' # token_binary_version)
        => /\ IsCall
           /\ last'.op = "set_token_binary"
           /\ last'.caller = current_account_id]_vars

\* The factory has set a binary and the locker has then registered a token.
C5_Witness ==
  /\ token_binary_version = 1 /\ token_binary # {}
  /\ last.op = "on_deposit" /\ last.caller = LockerRep /\ last.result = "ok"
  /\ SubAccount(last.args.token) \in DOMAIN tokens
  /\ LockerRep # current_account_id

(***************************************************************************)
(* C6: with no binary set, create_token by the locker and on_deposit by    *)
(* the locker for a token without a Registry entry fail with               *)
(* ERR_BINARY_NOT_AVAILABLE; nothing is registered or dispatched.          *)
(***************************************************************************)
C6_NoBinaryNoDeploy ==
  [][(/\ IsCall
      /\ token_binary = {}
      /\ last'.caller = LockerRep
      /\ \/ last'.op = "create_token"
         \/ /\ last'.op = "on_deposit"
            /\ SubAccount(last'.args.token) \notin DOMAIN tokens)
     => (last'.result = ERR_BINARY_NOT_AVAILABLE /\ NothingCommitted)]_vars

\* The locker's deposit for an unregistered token failed for want of a binary.
C6_Witness ==
  /\ last.op = "on_deposit" /\ last.caller = LockerRep
  /\ last.result = ERR_BINARY_NOT_AVAILABLE
  /\ token_binary = {}
  /\ tokens = EmptyMap /\ promises = <<>>

(***************************************************************************)
(* C7: the Registry is append-only by key: no step removes an entry or     *)
(* changes its version.                                                    *)
(***************************************************************************)
C7_RegistryAppendOnly ==
  [][\A id \in DOMAIN tokens :
       id \in DOMAIN tokens' /\ tokens'[id] = tokens[id]]_vars

\* An entry keeps the version stamped at creation after the binary, and
\* with it the version counter, was replaced.
C7_Witness ==
  /\ last.op = "set_token_binary" /\ last.result = "ok"
  /\ token_binary_version = 2
  /\ \E id \in DOMAIN tokens : tokens[id] = 1

(***************************************************************************)
(* C8: on_withdraw by a caller whose identity is shorter than 40           *)
(* characters, or whose first 40 characters are not all hex digits, fails: *)
(* nothing is dispatched and no state changes.                             *)
(***************************************************************************)
ValidHexChars ==
  {"0","1","2","3","4","5","6","7","8","9",
   "a","b","c","d","e","f","A","B","C","D","E","F"}

Malformed(caller) ==
  \/ Len(caller) < 40
  \/ \E i \in 1..40 : caller[i] \notin ValidHexChars

C8_MalformedCallerFails ==
  [][(IsCall /\ last'.op = "on_withdraw" /\ Malformed(last'.caller))
     => (last'.result \in {PANIC_SLICE, PANIC_UNWRAP} /\ NothingCommitted)]_vars

\* A caller with a long identity that is not hex in its first 40 characters
\* was rejected.
C8_Witness ==
  /\ last.op = "on_withdraw" /\ last.caller = BadHex
  /\ Len(last.caller) >= 40
  /\ last.result = PANIC_UNWRAP

(***************************************************************************)
(* C9: on_withdraw fails and dispatches nothing whenever its caller is not *)
(* a token sub-account deployed by this factory (no Registry entry, never  *)
(* the target of a deploy batch).                                          *)
(***************************************************************************)
DeployedByFactory(caller) ==
  \/ caller \in DOMAIN tokens
  \/ \E i \in 1..Len(promises) :
       IsDeployBatch(promises[i]) /\ promises[i].receiver = caller

C9_WithdrawOnlyForDeployedTokens ==
  [][(IsCall /\ last'.op = "on_withdraw" /\ ~DeployedByFactory(last'.caller))
     => (last'.result # "ok" /\ NothingCommitted)]_vars

(***************************************************************************)
(* C10: a successful on_withdraw dispatches exactly one call, to the       *)
(* engine, addressed to the locker's contract on the host ledger and       *)
(* carrying the encoded withdrawal message.                                *)
(***************************************************************************)
C10_WithdrawAddressedToLocker ==
  [][(IsCall /\ last'.op = "on_withdraw" /\ last'.result = "ok")
     => /\ promises' = Append(promises, promises'[last'.promise])
        /\ IsEngineCall(promises'[last'.promise])
        /\ promises'[last'.promise].receiver = aurora
        /\ promises'[last'.promise].actions[1].args.contract = locker
        /\ promises'[last'.promise].actions[1].args.input
             = abi_encode_withdraw(
                 hex_decode_to_slice(SubSeq(last'.caller, 1, 40), 20).bytes,
                 last'.args.receiver_id, last'.args.amount)]_vars

(***************************************************************************)
(* Evaluation of the pure functions: the message encoder and the           *)
(* address/account codec, applied to inputs drawn from bounded sets, for   *)
(* an initialized factory.                                                 *)
(***************************************************************************)
\* The addresses of the repository's encoder test (lib.rs:243-248).
TestToken == [i \in 1..ADDRESS_LEN |-> <<12, 34, 56, 78, 90>>[((i - 1) % 5) + 1]]
TestReceiver ==
  [i \in 1..ADDRESS_LEN |-> <<12, 34, 56, 78, 90>>[((i - 1) \div 4) + 1]]
ZeroAddress == Zeros(ADDRESS_LEN)
MaxAddress == [i \in 1..ADDRESS_LEN |-> 255]

EncodeTokens == {TokenA, TestToken, MaxAddress}
EncodeReceivers == {HostReceiver, TestReceiver, ZeroAddress}
\* u128 amounts: 0, 1, 255, 256, 65536, the test's 0x998877665544332211,
\* 2^64, 2^127, 0x0102..10 and 2^128 - 1.
EncodeAmounts ==
  {u128_from(0), u128_from(1), u128_from(255), u128_from(256),
   u128_from(65536),
   <<0, 0, 0, 153, 34935, 26197, 17459, 8721>>,
   <<0, 0, 0, 1, 0, 0, 0, 0>>,
   <<32768, 0, 0, 0, 0, 0, 0, 0>>,
   <<258, 772, 1286, 1800, 2314, 2828, 3342, 3856>>,
   <<65535, 65535, 65535, 65535, 65535, 65535, 65535, 65535>>}

\* Addresses for the codec: every byte value, and addresses of mixed bytes.
CodecAddresses ==
  {[i \in 1..ADDRESS_LEN |-> b] : b \in 0..255}
    \cup {[i \in 1..ADDRESS_LEN |-> (b + 13 * i) % 256] : b \in 0..15}
    \cup {TokenA, TestToken}
\* Addresses compared pairwise; the first two differ only in how their
\* leading bytes 0x01 0x10 and 0x11 0x00 group into hex digits.
PairAddresses ==
  {[i \in 1..ADDRESS_LEN |-> IF i = 1 THEN 1 ELSE IF i = 2 THEN 16 ELSE 0],
   [i \in 1..ADDRESS_LEN |-> IF i = 1 THEN 17 ELSE 0],
   [i \in 1..ADDRESS_LEN |-> IF i = ADDRESS_LEN THEN 1 ELSE 0],
   ZeroAddress, MaxAddress, TokenA, TokenB, TestToken, TestReceiver,
   LockerAddress, HostReceiver}

EvalInputs ==
  {[fn |-> "abi_encode_withdraw",
    input |-> [token_id |-> t, receiver_id |-> r, amount |-> a],
    done |-> FALSE, output |-> <<>>] :
     t \in EncodeTokens, r \in EncodeReceivers, a \in EncodeAmounts}
  \cup
  {[fn |-> "round_trip", input |-> a, done |-> FALSE, output |-> <<>>] :
     a \in CodecAddresses}
  \cup
  {[fn |-> "account_ids", input |-> <<a, b>>, done |-> FALSE,
    output |-> <<>>] : a \in PairAddresses, b \in PairAddresses}

InitEval ==
  /\ current_account_id = FactoryId
  /\ initialized = TRUE
  /\ aurora = AuroraId
  /\ locker = LockerAddress
  /\ token_binary = {}
  /\ token_binary_version = 0
  /\ tokens = EmptyMap
  /\ promises = <<>>
  /\ accounts = EmptyMap
  /\ last = NoCall
  /\ ncalls = 0
  /\ eval \in EvalInputs

Evaluated(output) ==
  /\ ~eval.done
  /\ eval' = [eval EXCEPT !.done = TRUE, !.output = output]
  /\ UNCHANGED <<current_account_id, initialized, aurora, locker,
                 token_binary, token_binary_version, tokens, promises,
                 accounts, last, ncalls>>

EvalEncode ==
  /\ eval.fn = "abi_encode_withdraw"
  /\ Evaluated(abi_encode_withdraw(eval.input.token_id,
                                   eval.input.receiver_id,
                                   eval.input.amount))

\* The address decoded from the account id derived from the address.
EvalRoundTrip ==
  /\ eval.fn = "round_trip"
  /\ Evaluated(LET id == account_id_from_token_address(eval.input)
               IN  IF id.ok THEN address_from_token_account_id(id.id)
                   ELSE [ok |-> FALSE, err |-> PANIC_UNWRAP,
                         address |-> <<>>])

\* The account ids derived from two addresses.
EvalAccountIds ==
  /\ eval.fn = "account_ids"
  /\ Evaluated(<<account_id_from_token_address(eval.input[1]),
                 account_id_from_token_address(eval.input[2])>>)

NextEval == EvalEncode \/ EvalRoundTrip \/ EvalAccountIds

SpecEval == InitEval /\ [][NextEval]_vars

(***************************************************************************)
(* C11: abi_encode_withdraw returns exactly 100 bytes: the selector        *)
(* d9 ca ed 12 in [0,4), the token address in [16,36), the receiver        *)
(* address in [48,68), the amount as 16 big-endian bytes in [84,100) and   *)
(* zero everywhere else; bytes [4,100) are the (address, address, uint256) *)
(* ABI encoding of the arguments.                                          *)
(***************************************************************************)
\* The 16 big-endian bytes of a u128, read off its limbs.
BigEndian16(amount) ==
  [i \in 1..16 |-> IF i % 2 = 1 THEN amount[(i + 1) \div 2] \div 256
                                ELSE amount[i \div 2] % 256]

\* A value right-aligned in a 32-byte ABI word.
AbiWord(bytes) ==
  [i \in 1..32 |-> IF i <= 32 - Len(bytes) THEN 0
                   ELSE bytes[i - (32 - Len(bytes))]]

ReferenceAbiEncoding(token_id, receiver_id, amount) ==
  AbiWord(token_id) \o AbiWord(receiver_id) \o AbiWord(BigEndian16(amount))

C11_EncodeLayout ==
  (eval.fn = "abi_encode_withdraw" /\ eval.done) =>
    LET out == eval.output
        in == eval.input
    IN  /\ Len(out) = 100
        /\ SubSeq(out, 1, 4) = <<217, 202, 237, 18>>
        /\ SubSeq(out, 17, 36) = in.token_id
        /\ SubSeq(out, 49, 68) = in.receiver_id
        /\ SubSeq(out, 85, 100) = BigEndian16(in.amount)
        /\ \A i \in (5..16) \cup (37..48) \cup (69..84) : out[i] = 0
        /\ SubSeq(out, 5, 100)
             = ReferenceAbiEncoding(in.token_id, in.receiver_id, in.amount)

\* The test's arguments were encoded: an amount of nine significant bytes.
C11_Witness ==
  /\ eval.fn = "abi_encode_withdraw" /\ eval.done
  /\ eval.input.token_id = TestToken
  /\ eval.input.receiver_id = TestReceiver
  /\ eval.input.amount = <<0, 0, 0, 153, 34935, 26197, 17459, 8721>>
  /\ SubSeq(eval.output, 92, 100) = <<153, 136, 119, 102, 85, 68, 51, 34, 17>>

(***************************************************************************)
(* C12: for every token address a, decoding the first 40 characters of the *)
(* sub-account id derived from a gives back a.                             *)
(***************************************************************************)
C12_RoundTrip ==
  (eval.fn = "round_trip" /\ eval.done) =>
    (eval.output.ok /\ eval.output.address = eval.input)

\* The address 0x0102..14 went through the account id and back.
C12_Witness ==
  /\ eval.fn = "round_trip" /\ eval.done
  /\ eval.input = TokenA
  /\ eval.output.ok /\ eval.output.address[ADDRESS_LEN] = 20

(***************************************************************************)
(* C13: for a fixed factory identity, two distinct token addresses never   *)
(* map to the same account id.                                             *)
(***************************************************************************)
C13_Injective ==
  (eval.fn = "account_ids" /\ eval.done /\ eval.input[1] # eval.input[2]) =>
    /\ eval.output[1].ok /\ eval.output[2].ok
    /\ eval.output[1].id # eval.output[2].id

\* Two addresses whose bytes 0x01 0x10 and 0x11 0x00 would run together
\* without padding got different account ids.
C13_Witness ==
  /\ eval.fn = "account_ids" /\ eval.done
  /\ eval.input[1][1] = 1 /\ eval.input[1][2] = 16
  /\ eval.input[2][1] = 17 /\ eval.input[2][2] = 0
  /\ eval.output[1].id # eval.output[2].id
  /\ Len(eval.output[1].id) = Len(eval.output[2].id)

(***************************************************************************)
(* C14: new succeeds exactly when the derived sub-account identity, of     *)
(* 40 + 1 + length(factory identity) characters, is within the ledger's    *)
(* maximum account id length; a rejected new leaves no contract state.     *)
(***************************************************************************)
C14_NewAcceptsUpToLedgerMaximum ==
  [][(~initialized /\ last'.op = "new")
     => /\ (last'.result = "ok")
             <=> account_id_parse(SubAccount(TokenA)).ok
        /\ (last'.result # "ok")
             => (last'.result = ERR_INVALID_ACCOUNT /\ ~initialized')
        /\ (last'.result = "ok") => initialized']_vars

(***************************************************************************)
(* C15: the version counter is 0 after new, grows by exactly 1 in each     *)
(* successful set_token_binary, and is changed by no other step; it never  *)
(* decreases.                                                              *)
(***************************************************************************)
SetBinarySucceeds ==
  IsCall /\ last'.op = "set_token_binary" /\ last'.result = "ok"

C15_VersionCounts ==
  [][/\ (~initialized /\ initialized') => token_binary_version' = 0
     /\ SetBinarySucceeds => token_binary_version' = token_binary_version + 1
     /\ (initialized /\ ~SetBinarySucceeds)
          => token_binary_version' = token_binary_version
     /\ token_binary_version' >= token_binary_version]_vars

\* The binary was replaced three times.
C15_Witness ==
  /\ last.op = "set_token_binary" /\ last.result = "ok"
  /\ token_binary_version = 3 /\ ncalls = 3
  /\ token_binary # {}

(***************************************************************************)
(* C16: the outcome of a dispatched sequence is never inspected: no        *)
(* execution step changes the Registry, and after the deploy batch of a    *)
(* token has failed, an on_deposit by the locker for that token still      *)
(* finds the entry and dispatches only a direct credit.                    *)
(***************************************************************************)
DeployFailed(account) ==
  \E i \in 1..Len(promises) :
    /\ IsDepositDeploy(promises[i])
    /\ promises[i].receiver = account
    /\ promises[i].status = "failed"

C16_NoRedeployAfterFailure ==
  [][/\ (initialized /\ ~IsCall) => tokens' = tokens
     /\ (/\ IsCall
         /\ last'.op = "on_deposit" /\ last'.caller = LockerRep
         /\ DeployFailed(SubAccount(last'.args.token)))
        => /\ last'.result = "ok"
           /\ SubAccount(last'.args.token) \in DOMAIN tokens
           /\ tokens' = tokens
           /\ promises' = Append(promises, promises'[last'.promise])
           /\ IsDirectCredit(promises'[last'.promise])
           /\ promises'[last'.promise].receiver
                = SubAccount(last'.args.token)]_vars

\* A deposit was routed as a direct credit after the token's deploy batch
\* had failed.
C16_Witness ==
  /\ Len(promises) = 2
  /\ IsDepositDeploy(promises[1]) /\ promises[1].status = "failed"
  /\ IsDirectCredit(promises[2])
  /\ promises[2].receiver = promises[1].receiver
  /\ promises[1].receiver \in DOMAIN tokens
  /\ promises[1].receiver \notin DOMAIN accounts
  /\ last.op = "on_deposit" /\ last.promise = 2

(***************************************************************************)
(* C17: in the message dispatched by on_withdraw the token address is the  *)
(* one decoded from the first 40 characters of the caller's identity, and  *)
(* the receiver and amount are the arguments; two successive calls by the  *)
(* same caller name the same token whatever their arguments.               *)
(***************************************************************************)
WithdrawSucceeded(call) == call.op = "on_withdraw" /\ call.result = "ok"

\* The fields of a dispatched withdrawal message.
MessageOf(p) == p.actions[1].args.input
TokenField(p) == SubSeq(MessageOf(p), 17, 36)
ReceiverField(p) == SubSeq(MessageOf(p), 49, 68)
AmountField(p) == SubSeq(MessageOf(p), 85, 100)

C17_TokenFromCallerOnly ==
  [][/\ (IsCall /\ WithdrawSucceeded(last'))
        => /\ TokenField(promises'[last'.promise])
                = hex_decode_to_slice(SubSeq(last'.caller, 1, 40), 20).bytes
           /\ ReceiverField(promises'[last'.promise]) = last'.args.receiver_id
           /\ AmountField(promises'[last'.promise])
                = BigEndian16(last'.args.amount)
     /\ (/\ WithdrawSucceeded(last)
         /\ IsCall /\ WithdrawSucceeded(last')
         /\ last'.caller = last.caller)
        => TokenField(promises'[last'.promise])
             = TokenField(promises[last.promise])]_vars

\* The same token sub-account withdrew twice with different amounts.
C17_Witness ==
  /\ ncalls = 2 /\ Len(promises) = 2
  /\ IsEngineCall(promises[1]) /\ IsEngineCall(promises[2])
  /\ WithdrawSucceeded(last) /\ last.caller = TokenAccount(TokenA)
  /\ TokenField(promises[1]) = TokenA /\ TokenField(promises[2]) = TokenA
  /\ AmountField(promises[1]) # AmountField(promises[2])

(***************************************************************************)
(* C18: every Registry entry's version is at least 1 and at most the       *)
(* version counter, a non-empty Registry implies that a binary is set, and *)
(* a token is registered with the value the counter has at its first       *)
(* deposit (the number of successful set_token_binary calls so far).       *)
(***************************************************************************)
C18_VersionsWithinCounter ==
  [][/\ \A id \in DOMAIN tokens' :
          1 <= tokens'[id] /\ tokens'[id] <= token_binary_version'
     /\ (tokens' # EmptyMap) => (token_binary' # {})
     /\ \A id \in DOMAIN tokens' \ DOMAIN tokens :
          tokens'[id] = token_binary_version]_vars

\* A token first deposited after two replacements of the binary carries
\* version 2.
C18_Witness ==
  /\ last.op = "on_deposit" /\ last.result = "ok"
  /\ token_binary_version = 2
  /\ tokens = [x \in {SubAccount(last.args.token)} |-> 2]

(***************************************************************************)
(* C19: a direct credit is dispatched to a sub-account only after a        *)
(* create+deploy+init+credit batch was dispatched to it, and the first     *)
(* deposit dispatched to a sub-account is the last step of such a batch.   *)
(***************************************************************************)
C19_CreditOnlyAfterDeploy ==
  \A j \in 1..Len(promises) :
    /\ IsDirectCredit(promises[j])
         => \E i \in 1..(j - 1) :
              /\ IsDepositDeploy(promises[i])
              /\ promises[i].receiver = promises[j].receiver
    /\ (/\ HasDeposit(promises[j])
        /\ \A i \in 1..(j - 1) :
             ~(HasDeposit(promises[i])
               /\ promises[i].receiver = promises[j].receiver))
         => IsDepositDeploy(promises[j])

\* A deploy batch and a later direct credit to the same sub-account both
\* ran, and the receiver holds both amounts.
C19_Witness ==
  /\ Len(promises) = 2
  /\ IsDepositDeploy(promises[1]) /\ promises[1].status = "ok"
  /\ IsDirectCredit(promises[2]) /\ promises[2].status = "ok"
  /\ promises[2].receiver = promises[1].receiver
  /\ Balance(promises[1].receiver, Alice)
       = u128_add(promises[1].actions[4].args.amount,
                  promises[2].actions[1].args.amount)

(***************************************************************************)
(* C20: on_withdraw, successful or not and whoever calls it, leaves the    *)
(* Registry, the binary, the version counter and the locker unchanged;     *)
(* its only effect is the engine call it dispatches when it succeeds.      *)
(***************************************************************************)
C20_WithdrawFrame ==
  [][(IsCall /\ last'.op = "on_withdraw")
     => /\ UNCHANGED <<tokens, token_binary, token_binary_version, locker,
                       aurora, accounts>>
        /\ IF last'.result = "ok"
             THEN /\ promises' = Append(promises, promises'[last'.promise])
                  /\ IsEngineCall(promises'[last'.promise])
             ELSE promises' = promises /\ last'.promise = 0]_vars

\* A registered token's sub-account withdrew while a binary was set.
C20_Witness ==
  /\ WithdrawSucceeded(last)
  /\ last.caller \in DOMAIN tokens
  /\ token_binary # {} /\ token_binary_version = 1
  /\ IsEngineCall(promises[last.promise])

====
